---------------------------- MODULE Spec2Model ----------------------------
(***************************************************************************)
(* Model of realm::js::Schema<T> (src/js_schema.hpp): the parser that      *)
(* turns JavaScript schema declarations into Property / ObjectSchema /     *)
(* Schema values and fills the caller-owned defaults and constructor maps. *)
(***************************************************************************)
EXTENDS Naturals, Sequences, FiniteSets, TLC

VARIABLES
    defaults,        \* ObjectDefaultsMap owned by the caller
    constructors,    \* ConstructorMap owned by the caller
    object_defaults, \* ObjectDefaults the caller hands to parse_property
    object_schema,   \* ObjectSchema the caller hands to dict_for_property_array
    call             \* the last call: [op, in, out]

vars == <<defaults, constructors, object_defaults, object_schema, call>>

(***************************************************************************)
(* Bounds of the model.                                                    *)
(***************************************************************************)
MaxProps == 2   \* longest `properties` collection of a declaration
MaxDecls == 2   \* longest array handed to parse_schema

(***************************************************************************)
(* JavaScript primitive values: a type tag and a printed value.            *)
(***************************************************************************)
Undefined == [t |-> "undefined", v |-> ""]
Str(s) == [t |-> "string", v |-> s]
True == [t |-> "boolean", v |-> "true"]
False == [t |-> "boolean", v |-> "false"]
Num1 == [t |-> "number", v |-> "1"]
Num2 == [t |-> "number", v |-> "2"]

(***************************************************************************)
(* Errors: the message of the thrown exception and the name it embeds.     *)
(***************************************************************************)
NoErr == [msg |-> "", arg |-> ""]
Err(m, a) == [msg |-> m, arg |-> a]

(***************************************************************************)
(* std::map as a set of [k, v] entries with unique keys.                   *)
(***************************************************************************)
EmptyMap == {}
Keys(m) == {e.k : e \in m}
Lookup(m, key) == (CHOOSE e \in m : e.k = key).v

EmplaceOverwrite(m, key, val) == {e \in m : e.k # key} \cup {[k |-> key, v |-> val]}

\* std::map::emplace: inserts only when the key is absent.
Emplace(m, key, val) ==
    IF key \in Keys(m) THEN m ELSE m \cup {[k |-> key, v |-> val]}

(***************************************************************************)
(* Host value layer (js_types.hpp): validated coercions.                   *)
(***************************************************************************)
ValidatedToString(value, name) ==
    IF value.t = "string"
    THEN [err |-> NoErr, val |-> value.v]
    ELSE [err |-> Err("must be of type: string", name), val |-> ""]

ValidatedToBoolean(value, name) ==
    IF value.t = "boolean"
    THEN [err |-> NoErr, val |-> (value.v = "true")]
    ELSE [err |-> Err("must be of type: boolean", name), val |-> FALSE]

\* A default-constructed realm::Property (property.hpp).
DefaultProperty ==
    [name |-> "", type |-> "PropertyTypeInt", object_type |-> "",
     is_nullable |-> FALSE, is_indexed |-> FALSE, is_primary |-> FALSE]

(***************************************************************************)
(* A property declaration as handed to parse_property: either a primitive  *)
(* value (is_object = FALSE, the value in prim) or a descriptor object     *)
(* with the fields the parser reads.                                       *)
(***************************************************************************)
Bare(p) ==
    [is_object |-> FALSE, prim |-> p, name |-> Undefined, type |-> Undefined,
     objectType |-> Undefined, optional |-> Undefined, indexed |-> Undefined,
     default |-> Undefined]

Descriptor(n, ty, ot, opt, idx, def) ==
    [is_object |-> TRUE, prim |-> Undefined, name |-> n, type |-> ty,
     objectType |-> ot, optional |-> opt, indexed |-> idx, default |-> def]

(***************************************************************************)
(* The parsers below are written as the code runs: each block of lines is  *)
(* an operator from the state before the block to the state after it, and  *)
(* a state whose err is set (an exception is in flight) passes through     *)
(* the blocks that follow unchanged.                                       *)
(*                                                                         *)
(* parse_property's state: [err, type, prop, defs], defs being the         *)
(* caller's object_defaults.                                               *)
(***************************************************************************)

\* Lines 85-88: the `optional` field of a descriptor.
ReadOptional(attributes, st) ==
    IF attributes.optional = Undefined THEN st
    ELSE IF attributes.optional.t # "boolean"
    THEN [st EXCEPT !.err = ValidatedToBoolean(attributes.optional, "optional").err]
    ELSE [st EXCEPT !.prop.is_nullable =
                        ValidatedToBoolean(attributes.optional, "optional").val]

\* Lines 81-92: the type string, from the descriptor or the bare value.
ReadTypeAndOptional(attributes, st) ==
    IF attributes.is_object
    THEN IF attributes.type.t # "string"
         THEN [st EXCEPT !.err = ValidatedToString(attributes.type, "type").err]
         ELSE ReadOptional(attributes,
                  [st EXCEPT !.type = ValidatedToString(attributes.type, "type").val])
    ELSE IF attributes.prim.t # "string"
    THEN [st EXCEPT !.err = ValidatedToString(attributes.prim, "JS value").err]
    ELSE [st EXCEPT !.type = ValidatedToString(attributes.prim, "JS value").val]

ScalarTypes ==
    {"bool", "int", "float", "double", "string", "date", "data"}

\* Lines 94-114.
ScalarKind(type) ==
    CASE type = "bool"   -> "PropertyTypeBool"
      [] type = "int"    -> "PropertyTypeInt"
      [] type = "float"  -> "PropertyTypeFloat"
      [] type = "double" -> "PropertyTypeDouble"
      [] type = "string" -> "PropertyTypeString"
      [] type = "date"   -> "PropertyTypeDate"
      [] type = "data"   -> "PropertyTypeData"

\* Lines 120 and 131: object_type from the descriptor's objectType field.
ReadObjectType(attributes, st) ==
    IF attributes.objectType.t # "string"
    THEN [st EXCEPT !.err = ValidatedToString(attributes.objectType, "objectType").err]
    ELSE [st EXCEPT !.prop.object_type =
                        ValidatedToString(attributes.objectType, "objectType").val]

\* Faulty variant: the object branch leaves is_nullable as `optional` set it.
ResolveTypeOptionalWins(attributes, st) ==
    IF st.err # NoErr THEN st
    ELSE IF st.type \in ScalarTypes
    THEN [st EXCEPT !.prop.type = ScalarKind(st.type)]
    ELSE IF st.type = "list"
    THEN IF ~attributes.is_object
         THEN [st EXCEPT !.err = Err("List property must specify 'objectType'", "")]
         ELSE ReadObjectType(attributes, [st EXCEPT !.prop.type = "PropertyTypeArray"])
    ELSE IF st.type = "object"
    THEN IF ~attributes.is_object
         THEN [st EXCEPT !.err = Err("Object property must specify 'objectType'", "")]
         ELSE ReadObjectType(attributes,
                  [st EXCEPT !.prop.type = "PropertyTypeObject",
                             !.prop.is_nullable =
                                 (attributes.optional = Undefined) \/ st.prop.is_nullable])
    ELSE [st EXCEPT !.prop.type = "PropertyTypeObject",
                    !.prop.is_nullable =
                        (~attributes.is_object) \/ (attributes.optional = Undefined)
                            \/ st.prop.is_nullable,
                    !.prop.object_type = st.type]

\* Lines 94-136: the property kind, object_type and the forced is_nullable.
ResolveType(attributes, st) ==
    IF st.err # NoErr THEN st
    ELSE IF st.type \in ScalarTypes
    THEN [st EXCEPT !.prop.type = ScalarKind(st.type)]
    ELSE IF st.type = "list"
    THEN IF ~attributes.is_object
         THEN [st EXCEPT !.err = Err("List property must specify 'objectType'", "")]
         ELSE ReadObjectType(attributes, [st EXCEPT !.prop.type = "PropertyTypeArray"])
    ELSE IF st.type = "object"
    THEN IF ~attributes.is_object
         THEN [st EXCEPT !.err = Err("Object property must specify 'objectType'", "")]
         ELSE ReadObjectType(attributes,
                  [st EXCEPT !.prop.type = "PropertyTypeObject",
                             !.prop.is_nullable = TRUE])
    ELSE [st EXCEPT !.prop.type = "PropertyTypeObject",
                    !.prop.is_nullable = TRUE,
                    !.prop.object_type = st.type]

\* Lines 139-142: the `default` field goes into object_defaults.
ReadDefault(attributes, st) ==
    IF attributes.default = Undefined THEN st
    ELSE [st EXCEPT !.defs = Emplace(st.defs, st.prop.name, attributes.default)]

\* Lines 144-147: the `indexed` field.
ReadIndexed(attributes, st) ==
    IF attributes.indexed = Undefined THEN st
    ELSE IF attributes.indexed.t # "boolean"
    THEN [st EXCEPT !.err = ValidatedToBoolean(attributes.indexed, "JS value").err]
    ELSE [st EXCEPT !.prop.is_indexed =
                        ValidatedToBoolean(attributes.indexed, "JS value").val]

\* Lines 138-148: the default is emplaced before `indexed` is validated.
ReadDefaultAndIndexed(attributes, st) ==
    IF st.err # NoErr \/ ~attributes.is_object THEN st
    ELSE ReadIndexed(attributes, ReadDefault(attributes, st))

\* What the caller of parse_property sees: the Property when it returns,
\* the exception otherwise, and object_defaults as the call leaves it.
PropertyOutcome(st) ==
    [err |-> st.err,
     prop |-> IF st.err = NoErr THEN st.prop ELSE DefaultProperty,
     defs |-> st.defs]

(***************************************************************************)
(* Schema<T>::parse_property.                                              *)
(***************************************************************************)
ParseProperty(attributes, property_name, defs) ==
    PropertyOutcome(
        ReadDefaultAndIndexed(attributes,
            ResolveType(attributes,
                ReadTypeAndOptional(attributes,
                    [err |-> NoErr, type |-> "",
                     prop |-> [DefaultProperty EXCEPT !.name = property_name],
                     defs |-> defs]))))

(***************************************************************************)
(* An object-type declaration as handed to parse_object_schema.  ctor is   *)
(* the identity of the constructor function ("" for a plain object);       *)
(* has_schema says whether the constructor carries a `schema` object.  The *)
(* `properties` value is absent, an array (elements read by index, key     *)
(* unused) or a plain object (entries in enumeration order, keys           *)
(* distinct).                                                              *)
(***************************************************************************)
ObjectDecl(c, hs, n, hp, arr, items, pk) ==
    [ctor |-> c, has_schema |-> hs, name |-> n, has_properties |-> hp,
     is_array |-> arr, properties |-> items, primaryKey |-> pk]

Item(key, val) == [key |-> key, val |-> val]

EmptyObjectSchema == [name |-> "", properties |-> <<>>, primary_key |-> ""]

\* The loops' state: [err, props, defs], defs being the local
\* object_defaults of parse_object_schema.
PushProperty(acc, r) ==
    IF r.err # NoErr THEN [acc EXCEPT !.err = r.err, !.defs = r.defs]
    ELSE [err |-> NoErr, props |-> Append(acc.props, r.prop), defs |-> r.defs]

\* One round of the array loop, lines 174-176.
ArrayStep(acc, property_object) ==
    IF acc.err # NoErr THEN acc
    ELSE IF ~property_object.is_object
    THEN [acc EXCEPT !.err = Err("must be of type: object", "Property")]
    ELSE IF property_object.name.t # "string"
    THEN [acc EXCEPT !.err = ValidatedToString(property_object.name, "name").err]
    ELSE PushProperty(acc,
             ParseProperty(property_object,
                           ValidatedToString(property_object.name, "name").val,
                           acc.defs))

\* One round of the loop over the keys, lines 182-183.
KeyedStep(acc, item) ==
    IF acc.err # NoErr THEN acc
    ELSE PushProperty(acc, ParseProperty(item.val, item.key, acc.defs))

\* Faulty variant: the loop over the keys walks them from the last to the first.
ParsePropertiesKeyedBackwards(items) ==
    LET loop[i \in 0..Len(items)] ==
            IF i = 0 THEN [err |-> NoErr, props |-> <<>>, defs |-> EmptyMap]
            ELSE KeyedStep(loop[i - 1], items[Len(items) + 1 - i])
    IN  loop[Len(items)]

\* Lines 172-177: `properties` is an array of descriptors, each naming
\* itself through its `name` field.
ParsePropertiesArray(items) ==
    LET loop[i \in 0..Len(items)] ==
            IF i = 0 THEN [err |-> NoErr, props |-> <<>>, defs |-> EmptyMap]
            ELSE ArrayStep(loop[i - 1], items[i].val)
    IN  loop[Len(items)]

\* Lines 180-184: `properties` is a plain object; the property names are
\* its keys, in enumeration order.
ParsePropertiesKeyed(items) ==
    LET loop[i \in 0..Len(items)] ==
            IF i = 0 THEN [err |-> NoErr, props |-> <<>>, defs |-> EmptyMap]
            ELSE KeyedStep(loop[i - 1], items[i])
    IN  loop[Len(items)]

(***************************************************************************)
(* parse_object_schema's state: [err, ctor, schema, defs].                 *)
(***************************************************************************)

\* Lines 160-164: a constructor is captured and its `schema` is parsed.
ReadConstructor(decl, st) ==
    IF decl.ctor = "" THEN st
    ELSE IF ~decl.has_schema
    THEN [st EXCEPT !.err =
              Err("Realm object constructor must have a 'schema' property.", "")]
    ELSE [st EXCEPT !.ctor = decl.ctor]

\* Line 168.
ReadName(decl, st) ==
    IF st.err # NoErr THEN st
    ELSE IF decl.name.t # "string"
    THEN [st EXCEPT !.err = ValidatedToString(decl.name, "name").err]
    ELSE [st EXCEPT !.schema.name = ValidatedToString(decl.name, "name").val]

TakeProperties(st, r) ==
    IF r.err # NoErr THEN [st EXCEPT !.err = r.err]
    ELSE [st EXCEPT !.schema.properties = r.props, !.defs = r.defs]

\* Lines 170-185.
ReadProperties(decl, st) ==
    IF st.err # NoErr THEN st
    ELSE IF ~decl.has_properties
    THEN [st EXCEPT !.err = Err("ObjectSchema must have a 'properties' object.", "")]
    ELSE IF decl.is_array
    THEN TakeProperties(st, ParsePropertiesArray(decl.properties))
    ELSE TakeProperties(st, ParsePropertiesKeyed(decl.properties))

\* ObjectSchema::primary_key_property (object_schema.hpp): the position of
\* the first property named primary_key, 0 when there is none.
PrimaryKeyProperty(schema) ==
    LET hits == {i \in 1..Len(schema.properties) :
                    schema.properties[i].name = schema.primary_key}
    IN  IF hits = {} THEN 0 ELSE CHOOSE i \in hits : \A j \in hits : i <= j

\* Lines 190-194, schema.primary_key being set.
MarkPrimary(st, i) ==
    IF i = 0
    THEN [st EXCEPT !.err = Err("Missing primary key property", st.schema.primary_key)]
    ELSE [st EXCEPT !.schema.properties[i].is_primary = TRUE]

SetPrimaryKey(st, primary_key) ==
    MarkPrimary([st EXCEPT !.schema.primary_key = primary_key],
                PrimaryKeyProperty([st.schema EXCEPT !.primary_key = primary_key]))

\* Faulty variant: every property is flagged once the primary key is found.
ResolvePrimaryKeyMarksAll(decl, st) ==
    IF st.err # NoErr \/ decl.primaryKey = Undefined THEN st
    ELSE IF decl.primaryKey.t # "string"
    THEN [st EXCEPT !.err = ValidatedToString(decl.primaryKey, "JS value").err]
    ELSE IF \A i \in 1..Len(st.schema.properties) :
                st.schema.properties[i].name # decl.primaryKey.v
    THEN [st EXCEPT !.err = Err("Missing primary key property", decl.primaryKey.v)]
    ELSE [st EXCEPT !.schema.primary_key = decl.primaryKey.v,
                    !.schema.properties =
                        [i \in 1..Len(st.schema.properties) |->
                            [st.schema.properties[i] EXCEPT !.is_primary = TRUE]]]

\* Lines 187-195: the primary key.
ResolvePrimaryKey(decl, st) ==
    IF st.err # NoErr \/ decl.primaryKey = Undefined THEN st
    ELSE IF decl.primaryKey.t # "string"
    THEN [st EXCEPT !.err = ValidatedToString(decl.primaryKey, "JS value").err]
    ELSE SetPrimaryKey(st, ValidatedToString(decl.primaryKey, "JS value").val)

\* Faulty variant: the maps are written with operator[] instead of emplace.
CommitMapsOverwrite(st, defaults_map, ctor_map) ==
    IF st.err # NoErr
    THEN [err |-> st.err, schema |-> EmptyObjectSchema,
          defaults |-> defaults_map, constructors |-> ctor_map]
    ELSE [err |-> NoErr, schema |-> st.schema,
          constructors |-> IF st.ctor # ""
                           THEN EmplaceOverwrite(ctor_map, st.schema.name, st.ctor)
                           ELSE ctor_map,
          defaults |-> EmplaceOverwrite(defaults_map, st.schema.name, st.defs)]

\* Faulty variant: a declaration without defaults gets no entry in the defaults map.
CommitMapsSkipsEmpty(st, defaults_map, ctor_map) ==
    IF st.err # NoErr
    THEN [err |-> st.err, schema |-> EmptyObjectSchema,
          defaults |-> defaults_map, constructors |-> ctor_map]
    ELSE [err |-> NoErr, schema |-> st.schema,
          constructors |-> IF st.ctor # ""
                           THEN Emplace(ctor_map, st.schema.name, st.ctor)
                           ELSE ctor_map,
          defaults |-> IF st.defs = EmptyMap THEN defaults_map
                       ELSE Emplace(defaults_map, st.schema.name, st.defs)]

\* Lines 197-204: the constructor and the defaults are emplaced under the
\* type name and the ObjectSchema is returned.  An exception raised before
\* leaves both maps as they were.
CommitMaps(st, defaults_map, ctor_map) ==
    IF st.err # NoErr
    THEN [err |-> st.err, schema |-> EmptyObjectSchema,
          defaults |-> defaults_map, constructors |-> ctor_map]
    ELSE [err |-> NoErr, schema |-> st.schema,
          constructors |-> IF st.ctor # ""
                           THEN Emplace(ctor_map, st.schema.name, st.ctor)
                           ELSE ctor_map,
          defaults |-> Emplace(defaults_map, st.schema.name, st.defs)]

\* Faulty variant: the maps are filled before the primary key is resolved.
ParseObjectSchemaCommitsEarly(decl, defaults_map, ctor_map) ==
    LET read == ReadProperties(decl,
                    ReadName(decl,
                        ReadConstructor(decl,
                            [err |-> NoErr, ctor |-> "", schema |-> EmptyObjectSchema,
                             defs |-> EmptyMap])))
        keyed == ResolvePrimaryKey(decl, read)
    IN  [CommitMaps(read, defaults_map, ctor_map)
         EXCEPT !.err = keyed.err,
                !.schema = IF keyed.err = NoErr THEN keyed.schema
                           ELSE EmptyObjectSchema]

(***************************************************************************)
(* Schema<T>::parse_object_schema: the ObjectSchema, the error thrown      *)
(* (NoErr when it returns) and both maps as the call leaves them.          *)
(***************************************************************************)
ParseObjectSchema(decl, defaults_map, ctor_map) ==
    CommitMaps(
        ResolvePrimaryKey(decl,
            ReadProperties(decl,
                ReadName(decl,
                    ReadConstructor(decl,
                        [err |-> NoErr, ctor |-> "", schema |-> EmptyObjectSchema,
                         defs |-> EmptyMap])))),
        defaults_map, ctor_map)

\* One round of parse_schema's loop, lines 213-215; acc is
\* [err, schema, defaults, constructors].
TakeObjectSchema(acc, r) ==
    IF r.err # NoErr
    THEN [err |-> r.err, schema |-> <<>>,
          defaults |-> r.defaults, constructors |-> r.constructors]
    ELSE [err |-> NoErr, schema |-> Append(acc.schema, r.schema),
          defaults |-> r.defaults, constructors |-> r.constructors]

SchemaStep(acc, object_schema_object) ==
    IF acc.err # NoErr THEN acc
    ELSE TakeObjectSchema(acc,
             ParseObjectSchema(object_schema_object, acc.defaults, acc.constructors))

(***************************************************************************)
(* Schema<T>::parse_schema, lines 209-218: the declarations in order; the  *)
(* first error ends the loop with the maps as they are.                    *)
(***************************************************************************)
ParseSchema(schema_object, defaults_map, ctor_map) ==
    LET loop[i \in 0..Len(schema_object)] ==
            IF i = 0
            THEN [err |-> NoErr, schema |-> <<>>,
                  defaults |-> defaults_map, constructors |-> ctor_map]
            ELSE SchemaStep(loop[i - 1], schema_object[i])
    IN  loop[Len(schema_object)]

\* Object::set_property on a plain object: the key is created or overwritten.
SetProperty(dict, key, val) == {e \in dict : e.k # key} \cup {[k |-> key, v |-> val]}

\* dict_for_property_array, lines 57-62, count being Len(array).
FillDict(schema, array) ==
    LET loop[i \in 0..Len(array)] ==
            IF i = 0 THEN EmptyMap
            ELSE SetProperty(loop[i - 1], schema.properties[i].name, array[i])
    IN  loop[Len(array)]

(***************************************************************************)
(* Schema<T>::dict_for_property_array.                                     *)
(***************************************************************************)
DictForPropertyArray(schema, array) ==
    IF Len(schema.properties) # Len(array)
    THEN [err |-> Err("Array must contain values for all object properties", ""),
          dict |-> EmptyMap]
    ELSE [err |-> NoErr, dict |-> FillDict(schema, array)]

(***************************************************************************)
(* Inputs.                                                                 *)
(***************************************************************************)
PropNames == {"a", "b"}
Values == {Num1, Num2}

TypeValues ==
    {Str(t) : t \in ScalarTypes \cup {"list", "object", "Dog", ""}} \cup {Undefined}

\* Declarations handed to parse_property directly: every type string, bare
\* and in a descriptor, crossed with objectType and optional; and the
\* indexed and default fields on a scalar and on a reference.
PropertyDecls ==
    {Bare(p) : p \in TypeValues \cup {Num1}}
    \cup {Descriptor(Undefined, ty, ot, opt, Undefined, Undefined) :
            ty \in TypeValues, ot \in {Undefined, Str("Dog"), Str("")},
            opt \in {Undefined, True, False, Num1}}
    \cup {Descriptor(Undefined, ty, ot, opt, idx, def) :
            ty \in {Str("int"), Str("Dog")},
            ot \in {Undefined}, opt \in {Undefined, False},
            idx \in {Undefined, True, False, Num1},
            def \in {Undefined, Num1, Num2}}

\* Descriptors a `properties` collection is built from, with name field n.
ObjPropAttrs(n) ==
    {Descriptor(n, Str("int"), Undefined, Undefined, Undefined, Num1),
     Descriptor(n, Str("Dog"), Undefined, False, True, Num2)}

\* Elements of a `properties` array: named descriptors and a descriptor
\* with no name.
ArrayItems ==
    {Item("", d) : d \in UNION {ObjPropAttrs(Str(n)) : n \in PropNames}}
    \cup {Item("", Descriptor(Undefined, Str("int"), Undefined, Undefined, Undefined,
                             Undefined))}

\* Entries of a `properties` object: descriptors (repeating the key in a
\* name field), a bare type string, and a bare "list".
KeyedItems ==
    UNION {{Item(n, d) : d \in ObjPropAttrs(Str(n))
                                \cup {Bare(Str("int")), Bare(Str("list"))}} :
           n \in PropNames}

SeqsUpTo(S, n) == UNION {[1..k -> S] : k \in 0..n}

DistinctKeys(items) ==
    \A i, j \in 1..Len(items) : items[i].key = items[j].key => i = j

ArrayProperties == SeqsUpTo(ArrayItems, MaxProps)
KeyedProperties == {items \in SeqsUpTo(KeyedItems, MaxProps) : DistinctKeys(items)}

\* Declarations of one type, varied in their property collection and
\* primary key; and three that fail before the properties are read.
ObjectDecls ==
    {ObjectDecl("", FALSE, Str("A"), TRUE, TRUE, items, pk) :
        items \in ArrayProperties, pk \in {Undefined, Str("a")}}
    \cup {ObjectDecl("", FALSE, Str("A"), TRUE, FALSE, items, pk) :
        items \in KeyedProperties, pk \in {Undefined, Str("a")}}
    \cup {ObjectDecl("F", FALSE, Str("A"), TRUE, TRUE, <<>>, Undefined),
          ObjectDecl("", FALSE, Undefined, TRUE, TRUE, <<>>, Undefined),
          ObjectDecl("", FALSE, Str("A"), FALSE, TRUE, <<>>, Undefined)}

\* Declarations handed to parse_schema: plain and constructor-backed, three
\* of them sharing a name, and one that fails on its primary key.
DefaultOf(n, v) ==
    <<Item(n, Descriptor(Undefined, Str("int"), Undefined, Undefined, Undefined, v))>>

PlainA == ObjectDecl("", FALSE, Str("A"), TRUE, FALSE, DefaultOf("a", Num1), Str("a"))
CtorFA == ObjectDecl("F", TRUE, Str("A"), TRUE, FALSE, DefaultOf("a", Num2), Undefined)
CtorGA == ObjectDecl("G", TRUE, Str("A"), TRUE, TRUE, <<>>, Undefined)
PlainB == ObjectDecl("", FALSE, Str("B"), TRUE, TRUE, <<>>, Undefined)
CtorGCNoKey ==
    ObjectDecl("G", TRUE, Str("C"), TRUE, FALSE, DefaultOf("a", Num1), Str("b"))

SchemaDecls == {PlainA, CtorFA, CtorGA, PlainB, CtorGCNoKey}

SchemaArrays == SeqsUpTo(SchemaDecls, MaxDecls)

\* Declarations handed to parse_property next to the schema calls.
FewPropertyDecls ==
    {Bare(Str("list")),
     Descriptor(Undefined, Str("int"), Undefined, Undefined, Undefined, Num1),
     Descriptor(Undefined, Str("Dog"), Undefined, Undefined, Num1, Num2)}

ValueArrays == SeqsUpTo(Values, MaxProps + 1)

(***************************************************************************)
(* The calls.                                                              *)
(***************************************************************************)
NoCall == [op |-> "none", in |-> <<>>, out |-> <<>>]

\* The ObjectSchemas parse_object_schema returns for the declarations decls.
ParsedObjectSchemas(decls) ==
    {r.schema : r \in {rr \in {ParseObjectSchema(d, EmptyMap, EmptyMap) : d \in decls} :
                          rr.err = NoErr}}

\* Empty maps; the caller holds an ObjectSchema parsed earlier.
Init ==
    /\ defaults = EmptyMap
    /\ constructors = EmptyMap
    /\ object_defaults = EmptyMap
    /\ object_schema \in ParsedObjectSchemas({PlainA})
    /\ call = NoCall

\* Empty maps; the caller holds no ObjectSchema.
InitParse ==
    /\ defaults = EmptyMap
    /\ constructors = EmptyMap
    /\ object_defaults = EmptyMap
    /\ object_schema = EmptyObjectSchema
    /\ call = NoCall

ParsePropertyCall(decls, names) ==
    \E attributes \in decls, property_name \in names :
        LET r == ParseProperty(attributes, property_name, object_defaults)
        IN  /\ object_defaults' = r.defs
            /\ call' = [op |-> "parse_property",
                        in |-> [attributes |-> attributes,
                                property_name |-> property_name,
                                object_defaults |-> object_defaults],
                        out |-> [err |-> r.err, prop |-> r.prop]]
            /\ UNCHANGED <<defaults, constructors, object_schema>>

ParseObjectSchemaCall(decls) ==
    \E decl \in decls :
        LET r == ParseObjectSchema(decl, defaults, constructors)
        IN  /\ defaults' = r.defaults
            /\ constructors' = r.constructors
            /\ call' = [op |-> "parse_object_schema",
                        in |-> [decl |-> decl, defaults |-> defaults,
                                constructors |-> constructors],
                        out |-> [err |-> r.err, schema |-> r.schema]]
            /\ UNCHANGED <<object_defaults, object_schema>>

ParseSchemaCall ==
    \E schema_object \in SchemaArrays :
        LET r == ParseSchema(schema_object, defaults, constructors)
        IN  /\ defaults' = r.defaults
            /\ constructors' = r.constructors
            /\ call' = [op |-> "parse_schema",
                        in |-> [schema_object |-> schema_object,
                                defaults |-> defaults,
                                constructors |-> constructors],
                        out |-> [err |-> r.err, schema |-> r.schema]]
            /\ UNCHANGED <<object_defaults, object_schema>>

DictForPropertyArrayCall ==
    \E array \in ValueArrays :
        LET r == DictForPropertyArray(object_schema, array)
        IN  /\ call' = [op |-> "dict_for_property_array",
                        in |-> [object_schema |-> object_schema, array |-> array],
                        out |-> r]
            /\ UNCHANGED <<defaults, constructors, object_defaults, object_schema>>

ParsePropertyAny == ParsePropertyCall(PropertyDecls, PropNames)
ParsePropertyFew == ParsePropertyCall(FewPropertyDecls, {"a"})
ParseObjectSchemaAny == ParseObjectSchemaCall(ObjectDecls)
ParseObjectSchemaFew == ParseObjectSchemaCall(SchemaDecls)

\* Every entry point, on the declarations of SchemaDecls.
Next ==
    \/ ParsePropertyFew
    \/ ParseObjectSchemaFew
    \/ ParseSchemaCall
    \/ DictForPropertyArrayCall

Spec == Init /\ [][Next]_vars

\* parse_property alone, on every declaration of PropertyDecls.
NextProperty == ParsePropertyAny
SpecProperty == InitParse /\ [][NextProperty]_vars

\* parse_object_schema alone, on every declaration of ObjectDecls.
NextObject == ParseObjectSchemaAny
SpecObject == InitParse /\ [][NextObject]_vars

\* dict_for_property_array on every ObjectSchema parse_object_schema
\* returns for a declaration of ObjectDecls.
InitDict ==
    /\ defaults = EmptyMap
    /\ constructors = EmptyMap
    /\ object_defaults = EmptyMap
    /\ object_schema \in ParsedObjectSchemas(ObjectDecls)
    /\ call = NoCall

NextDict == DictForPropertyArrayCall
SpecDict == InitDict /\ [][NextDict]_vars

(***************************************************************************)
(* Vocabulary of the properties.                                           *)
(***************************************************************************)
IsPropertyCall == call.op = "parse_property"
IsObjectCall == call.op = "parse_object_schema"
IsSchemaCall == call.op = "parse_schema"
IsDictCall == call.op = "dict_for_property_array"

\* The type value a property declaration carries.
DeclaredType(attributes) ==
    IF attributes.is_object THEN attributes.type ELSE attributes.prim

IsBooleanOrAbsent(value) == value = Undefined \/ value.t = "boolean"

ReferenceKinds == {"PropertyTypeArray", "PropertyTypeObject"}

\* The name a declaration gives its i-th property.
DeclaredName(decl, i) ==
    IF decl.is_array THEN decl.properties[i].val.name.v ELSE decl.properties[i].key

DeclaredNames(decl) == {DeclaredName(decl, i) : i \in 1..Len(decl.properties)}

\* The defaults a declaration states: per property name, the default of
\* the first property of that name that gives one.
DeclaredDefaults(decl) ==
    {[k |-> DeclaredName(decl, i), v |-> decl.properties[i].val.default] :
        i \in {j \in 1..Len(decl.properties) :
                  /\ decl.properties[j].val.default # Undefined
                  /\ \A h \in 1..(j - 1) :
                        DeclaredName(decl, h) = DeclaredName(decl, j)
                            => decl.properties[h].val.default = Undefined}}

\* The declaration has a name and a `properties` collection, and each of
\* its properties parses when taken alone.
PropertiesParse(decl) ==
    /\ decl.ctor # "" => decl.has_schema
    /\ decl.name.t = "string"
    /\ decl.has_properties
    /\ \A i \in 1..Len(decl.properties) :
           /\ decl.is_array =>
                  /\ decl.properties[i].val.is_object
                  /\ decl.properties[i].val.name.t = "string"
           /\ ParseProperty(decl.properties[i].val, DeclaredName(decl, i),
                            EmptyMap).err = NoErr

PrimaryPositions(schema) ==
    {i \in 1..Len(schema.properties) : schema.properties[i].is_primary}

(***************************************************************************)
(* C4.  Every Property parse_property returns of the list or the           *)
(* object-reference kind has a non-empty object_type, and every Property   *)
(* of a scalar kind has an empty one.                                      *)
(***************************************************************************)
C4_ObjectTypeSetIffReference ==
    (IsPropertyCall /\ call.out.err = NoErr) =>
        ((call.out.prop.type \in ReferenceKinds) <=> (call.out.prop.object_type # ""))

(***************************************************************************)
(* C5.  A declaration whose type string is none of the nine keywords       *)
(* parses to an object-reference Property whose object_type is that        *)
(* string and whose is_nullable is true, whether `optional` is absent,     *)
(* true or false.                                                          *)
(***************************************************************************)
C5_ReferenceIsNullable ==
    (/\ IsPropertyCall
     /\ DeclaredType(call.in.attributes).t = "string"
     /\ DeclaredType(call.in.attributes).v \notin ScalarTypes \cup {"list", "object"}
     /\ IsBooleanOrAbsent(call.in.attributes.optional)
     /\ IsBooleanOrAbsent(call.in.attributes.indexed))
    => /\ call.out.err = NoErr
       /\ call.out.prop.type = "PropertyTypeObject"
       /\ call.out.prop.object_type = DeclaredType(call.in.attributes).v
       /\ call.out.prop.is_nullable

\* A reference declared with optional: false has been parsed.
C5_Witness ==
    /\ IsPropertyCall
    /\ call.in.attributes.type = Str("Dog")
    /\ call.in.attributes.optional = False
    /\ call.out.err = NoErr
    /\ call.out.prop.is_nullable

(***************************************************************************)
(* C6.  A `list` declaration that supplies no objectType, bare or as a     *)
(* descriptor, fails with "List property must specify 'objectType'"; a     *)
(* list descriptor with objectType X parses to a list Property with        *)
(* object_type X.                                                          *)
(***************************************************************************)
C6_ListNeedsObjectType ==
    (/\ IsPropertyCall
     /\ DeclaredType(call.in.attributes) = Str("list")
     /\ IsBooleanOrAbsent(call.in.attributes.optional)
     /\ IsBooleanOrAbsent(call.in.attributes.indexed))
    => IF call.in.attributes.objectType = Undefined
       THEN call.out.err = Err("List property must specify 'objectType'", "")
       ELSE /\ call.out.err = NoErr
            /\ call.out.prop.type = "PropertyTypeArray"
            /\ call.out.prop.object_type = call.in.attributes.objectType.v

(***************************************************************************)
(* C2.  With a primaryKey field naming N: when no declared property is     *)
(* named N the call fails, with "Missing primary key property 'N'" when    *)
(* the properties themselves parse; when the call returns, primary_key is  *)
(* N, exactly one property is primary and it is named N.  Without a        *)
(* primaryKey field no property is primary.                                *)
(***************************************************************************)
C2_PrimaryKey ==
    IsObjectCall =>
        LET decl == call.in.decl
            N == decl.primaryKey.v
            schema == call.out.schema
        IN  /\ (decl.primaryKey # Undefined /\ N \notin DeclaredNames(decl))
                => /\ call.out.err # NoErr
                   /\ PropertiesParse(decl)
                       => call.out.err = Err("Missing primary key property", N)
            /\ (decl.primaryKey # Undefined /\ call.out.err = NoErr)
                => /\ schema.primary_key = N
                   /\ Cardinality(PrimaryPositions(schema)) = 1
                   /\ \A i \in PrimaryPositions(schema) : schema.properties[i].name = N
            /\ (decl.primaryKey = Undefined /\ call.out.err = NoErr)
                => PrimaryPositions(schema) = {}

\* A declaration of two properties whose primary key names the second.
C2_Witness ==
    /\ IsObjectCall
    /\ call.out.err = NoErr
    /\ call.in.decl.primaryKey = Str("a")
    /\ Len(call.out.schema.properties) = 2
    /\ PrimaryPositions(call.out.schema) = {2}

(***************************************************************************)
(* C3.  The properties of every ObjectSchema parse_object_schema returns   *)
(* have pairwise distinct names, for both shapes of `properties`.          *)
(***************************************************************************)
C3_UniquePropertyNames ==
    (IsObjectCall /\ call.out.err = NoErr) =>
        \A i, j \in 1..Len(call.out.schema.properties) :
            call.out.schema.properties[i].name = call.out.schema.properties[j].name
                => i = j

(***************************************************************************)
(* C8.  A declaration whose `properties` is an array of named descriptors  *)
(* and the declaration whose `properties` is the object with the same      *)
(* names, descriptors and order parse alike: the same outcome, the same    *)
(* sequence of Property values, the same defaults; and each Property       *)
(* stands at the position of its declaration.                              *)
(***************************************************************************)
AsKeyed(decl) ==
    [decl EXCEPT !.is_array = FALSE,
                 !.properties = [i \in 1..Len(decl.properties) |->
                                    Item(decl.properties[i].val.name.v,
                                         decl.properties[i].val)]]

HasKeyedEquivalent(decl) ==
    /\ decl.is_array
    /\ \A i \in 1..Len(decl.properties) : decl.properties[i].val.name.t = "string"
    /\ \A i, j \in 1..Len(decl.properties) :
            decl.properties[i].val.name = decl.properties[j].val.name => i = j

C8_ShapesAgree ==
    (IsObjectCall /\ HasKeyedEquivalent(call.in.decl)) =>
        LET keyed == ParseObjectSchema(AsKeyed(call.in.decl), call.in.defaults,
                                       call.in.constructors)
        IN  /\ keyed.err = call.out.err
            /\ keyed.schema = call.out.schema
            /\ keyed.defaults = defaults
            /\ call.out.err = NoErr =>
                   /\ Len(call.out.schema.properties) = Len(call.in.decl.properties)
                   /\ \A i \in 1..Len(call.in.decl.properties) :
                          call.out.schema.properties[i].name =
                              DeclaredName(call.in.decl, i)
                   /\ call.in.defaults = EmptyMap =>
                          Lookup(defaults, call.out.schema.name)
                              = DeclaredDefaults(AsKeyed(call.in.decl))

\* An array of two differently named properties, both with a default, has
\* been parsed into empty maps.
C8_Witness ==
    /\ IsObjectCall
    /\ HasKeyedEquivalent(call.in.decl)
    /\ call.out.err = NoErr
    /\ call.in.defaults = EmptyMap
    /\ Len(call.out.schema.properties) = 2
    /\ call.out.schema.properties[1].type # call.out.schema.properties[2].type
    /\ Cardinality(Lookup(defaults, "A")) = 2

(***************************************************************************)
(* C9.  dict_for_property_array fails with "Array must contain values for  *)
(* all object properties" and produces no dict when the array's length is  *)
(* not the number of properties; otherwise the dict maps                   *)
(* properties[i].name to array[i] for every i and has no other key.        *)
(***************************************************************************)
C9_DictPairsByPosition ==
    IsDictCall =>
        LET props == call.in.object_schema.properties
            array == call.in.array
        IN  IF Len(array) # Len(props)
            THEN /\ call.out.err =
                        Err("Array must contain values for all object properties", "")
                 /\ call.out.dict = EmptyMap
            ELSE /\ call.out.err = NoErr
                 /\ Keys(call.out.dict) = {props[i].name : i \in 1..Len(props)}
                 /\ \A i \in 1..Len(props) :
                        Lookup(call.out.dict, props[i].name) = array[i]

(***************************************************************************)
(* C1.  When parse_schema fails, its error is the error of the first       *)
(* failing declaration k, no Schema is returned, both maps hold the        *)
(* entries of the declarations before k, and k and the declarations after  *)
(* it have added nothing.                                                  *)
(***************************************************************************)
FailsAlone(decl) == ParseObjectSchema(decl, EmptyMap, EmptyMap).err # NoErr

FirstFailing(decls) ==
    CHOOSE k \in 1..Len(decls) :
        FailsAlone(decls[k]) /\ \A i \in 1..(k - 1) : ~FailsAlone(decls[i])

\* First declaration among the first n of decls that has name and, when
\* ctor_only, a constructor.
FirstNamed(decls, n, name, ctor_only) ==
    CHOOSE i \in 1..n :
        /\ decls[i].name.v = name /\ (ctor_only => decls[i].ctor # "")
        /\ \A j \in 1..(i - 1) :
               ~(decls[j].name.v = name /\ (ctor_only => decls[j].ctor # ""))

\* The maps after the first n declarations of decls were parsed into
\* defaults_in and constructors_in.
MapsHoldFirst(decls, n, defaults_in, constructors_in) ==
    /\ Keys(defaults) = Keys(defaults_in) \cup {decls[i].name.v : i \in 1..n}
    /\ Keys(constructors) =
           Keys(constructors_in)
               \cup {decls[i].name.v : i \in {j \in 1..n : decls[j].ctor # ""}}
    /\ \A name \in Keys(defaults) :
           Lookup(defaults, name) =
               IF name \in Keys(defaults_in) THEN Lookup(defaults_in, name)
               ELSE DeclaredDefaults(decls[FirstNamed(decls, n, name, FALSE)])
    /\ \A name \in Keys(constructors) :
           Lookup(constructors, name) =
               IF name \in Keys(constructors_in) THEN Lookup(constructors_in, name)
               ELSE decls[FirstNamed(decls, n, name, TRUE)].ctor

C1_PartialCommit ==
    IsSchemaCall =>
        LET decls == call.in.schema_object
        IN  IF \E k \in 1..Len(decls) : FailsAlone(decls[k])
            THEN /\ call.out.err =
                        ParseObjectSchema(decls[FirstFailing(decls)], EmptyMap,
                                          EmptyMap).err
                 /\ call.out.schema = <<>>
                 /\ MapsHoldFirst(decls, FirstFailing(decls) - 1, call.in.defaults,
                                  call.in.constructors)
            ELSE call.out.err = NoErr

\* The second of two declarations failed and the first one's entries, new
\* to both maps, are there.
C1_Witness ==
    /\ IsSchemaCall
    /\ Len(call.in.schema_object) = 2
    /\ call.out.err = Err("Missing primary key property", "b")
    /\ call.in.schema_object[1].name.v \in Keys(defaults) \ Keys(call.in.defaults)
    /\ call.in.schema_object[1].name.v \in Keys(constructors) \ Keys(call.in.constructors)

(***************************************************************************)
(* C7.  After parse_object_schema returns for a declaration named N, the   *)
(* defaults map holds under N the defaults of this declaration, and the    *)
(* constructor map holds under N this declaration's constructor exactly    *)
(* when it was supplied as a constructor - also when N had an entry.       *)
(***************************************************************************)
C7_EntriesAreThisDeclarations ==
    (IsObjectCall /\ call.out.err = NoErr) =>
        LET decl == call.in.decl
            N == call.out.schema.name
        IN  /\ N \in Keys(defaults)
            /\ Lookup(defaults, N) = DeclaredDefaults(decl)
            /\ (decl.ctor # "") <=>
                   (N \in Keys(constructors) /\ Lookup(constructors, N) = decl.ctor)

(***************************************************************************)
(* C7, amended.  After parse_object_schema returns for a declaration named *)
(* N: a map that had no entry under N holds this declaration's defaults    *)
(* (present even when empty), respectively its constructor exactly when it *)
(* was supplied as one; a map that had an entry under N still holds that   *)
(* entry.  After parse_schema returns, the same holds of all its           *)
(* declarations in order.                                                  *)
(***************************************************************************)
C7_EntriesOfFirstDeclaration ==
    /\ (IsObjectCall /\ call.out.err = NoErr) =>
           /\ call.out.schema.name = call.in.decl.name.v
           /\ MapsHoldFirst(<<call.in.decl>>, 1, call.in.defaults, call.in.constructors)
    /\ (IsSchemaCall /\ call.out.err = NoErr) =>
           MapsHoldFirst(call.in.schema_object, Len(call.in.schema_object),
                         call.in.defaults, call.in.constructors)

\* A declaration was parsed whose name had an entry holding other defaults.
C7_Witness ==
    /\ IsObjectCall
    /\ call.out.err = NoErr
    /\ call.out.schema.name \in Keys(call.in.defaults)
    /\ Lookup(defaults, call.out.schema.name) # DeclaredDefaults(call.in.decl)

(***************************************************************************)
(* C10.  No call removes or changes an entry of the defaults map, of the   *)
(* constructor map or of the ObjectDefaults handed to parse_property.      *)
(***************************************************************************)
C10_MapsOnlyGrow ==
    [][/\ defaults \subseteq defaults'
       /\ constructors \subseteq constructors'
       /\ object_defaults \subseteq object_defaults']_vars

\* A constructor was parsed whose name had another constructor's entry.
C10_Witness ==
    /\ IsObjectCall
    /\ call.out.err = NoErr
    /\ call.in.decl.ctor # ""
    /\ call.out.schema.name \in Keys(call.in.constructors)
    /\ Lookup(call.in.constructors, call.out.schema.name) # call.in.decl.ctor
    /\ Lookup(constructors, call.out.schema.name) # call.in.decl.ctor

=============================================================================
